---- MODULE Spec2Model ----
(***************************************************************************)
(* Model of static/app.js of Simply Invest: the credential store           *)
(* (registerUser, loginUser, logout), the session accessor                 *)
(* (getCurrentUserObject, updateUser), the price oracle (getStockPrice,    *)
(* updateStockPrice) and the portfolio ledger (investCoins,                *)
(* updatePortfolio, sellInvestment) over the three localStorage entries    *)
(* users, stockPrices and currentUser.                                     *)
(*                                                                         *)
(* Money is counted in cents (1 coin = 100 cents).  A JavaScript number    *)
(* that need not be a whole number of cents (an amount, a quantity, an     *)
(* investedAmount) is an exact value of the Numbers section below, and NaN *)
(* is <<0, 0, 0>>.  Values that the code passes through toFixed(2) (coins, *)
(* stored prices) are whole cents.                                         *)
(***************************************************************************)
EXTENDS Integers, Sequences, FiniteSets, TLC

VARIABLES users, stockPrices, currentUser, inflight, steps

vars == <<users, stockPrices, currentUser, inflight, steps>>

(***************************************************************************)
(* Bounds of the model.                                                    *)
(***************************************************************************)
\* the steps of one behaviour that write a variable
MaxSteps == 5
\* the highest price of the walk of the oracle alone (SpecOracle), in cents
MaxWalkPrice == 10400

(***************************************************************************)
(* Numbers.  A value is <<w, r, d>>, standing for w + r/d with w a whole   *)
(* number, 0 <= r < d and r/d in lowest terms (r = 0 goes with d = 1).     *)
(* Products are formed through MulDiv, which never leaves 32 bits.         *)
(***************************************************************************)
Abs(a) == IF a < 0 THEN -a ELSE a

RECURSIVE GCD(_, _)
GCD(a, b) == IF b = 0 THEN a ELSE GCD(b, a % b)

\* <<q, r>> with a * b = q * c + r and 0 <= r < c, for a, b >= 0 and c > 0
RECURSIVE MulDiv(_, _, _)
MulDiv(a, b, c) ==
  IF a = 0 \/ b = 0 THEN <<0, 0>>
  ELSE IF b <= 2147483647 \div a THEN <<(a * b) \div c, (a * b) % c>>
  ELSE
    LET h == MulDiv(a, b \div 2, c)
        q2 == IF 2 * h[2] >= c THEN 2 * h[1] + 1 ELSE 2 * h[1]
        r2 == IF 2 * h[2] >= c THEN 2 * h[2] - c ELSE 2 * h[2]
        r3 == r2 + (a % c)
    IN  IF b % 2 = 0 THEN <<q2, r2>>
        ELSE IF r3 >= c THEN <<q2 + (a \div c) + 1, r3 - c>>
        ELSE <<q2 + (a \div c), r3>>

NaN == <<0, 0, 0>>

IsNaN(x) == x[3] = 0

Num(i) == <<i, 0, 1>>

Norm(w, r, d) ==
  IF r = 0 THEN <<w, 0, 1>>
  ELSE LET g == GCD(r, d) IN <<w, r \div g, d \div g>>

Neg(x) ==
  IF x[2] = 0 THEN <<-x[1], 0, 1>> ELSE <<-x[1] - 1, x[3] - x[2], x[3]>>

\* the ratio n / d of two whole numbers, d # 0, as <<a, b>> in lowest terms
\* with b > 0
Ratio(n, d) ==
  LET g == GCD(Abs(n), Abs(d))
      s == IF d < 0 THEN -1 ELSE 1
  IN  <<s * (n \div g), s * (d \div g)>>

\* x * a / b for x >= 0, a >= 0, b > 0
MulPos(x, a, b) ==
  LET t1 == MulDiv(x[1], a, b)
      D == x[3] * b
      t2 == MulDiv(x[2], a, D)
      n == t1[2] * x[3] + t2[2]
      carry == IF n >= D THEN 1 ELSE 0
  IN  Norm(t1[1] + t2[1] + carry, n - carry * D, D)

\* x * f for x >= 0 and a ratio f
Mul(x, f) ==
  IF f[1] < 0 THEN Neg(MulPos(x, -f[1], f[2])) ELSE MulPos(x, f[1], f[2])

\* x < i, x > i, x <= i for a whole number i
LtInt(x, i) == x[1] < i

GtInt(x, i) == x[1] > i \/ (x[1] = i /\ x[2] > 0)

LeInt(x, i) == ~GtInt(x, i)

\* x + y
Add(x, y) ==
  LET g == GCD(x[3], y[3])
      D == (x[3] \div g) * y[3]
      n == x[2] * (y[3] \div g) + y[2] * (x[3] \div g)
      carry == IF n >= D THEN 1 ELSE 0
  IN  Norm(x[1] + y[1] + carry, n - carry * D, D)

\* x <= y
Le(x, y) ==
  \/ x[1] < y[1]
  \/ x[1] = y[1] /\ x[2] * y[3] <= y[2] * x[3]

(***************************************************************************)
(* parseFloat((c + x).toFixed(2)) for whole cents c and a value x in       *)
(* cents: the nearest whole number of cents, a tie going away from zero.   *)
(***************************************************************************)
ToFixed2(c, x) ==
  LET t == c + x[1]
  IN  IF 2 * x[2] < x[3] THEN t
      ELSE IF 2 * x[2] > x[3] THEN t + 1
      ELSE IF t >= 0 THEN t + 1 ELSE t

(***************************************************************************)
(* Strings: String.prototype.toLowerCase on the usernames of the model,    *)
(* and the SHA-256 hex digest as an injective tagging of the password.     *)
(***************************************************************************)
ToLowerCase(s) ==
  CASE s = "Alice" -> "alice"
    [] s = "Bob" -> "bob"
    [] OTHER -> s

hashPassword(password) == "sha256:" \o password

Null == "<null>"

(***************************************************************************)
(* Inputs of the model.                                                    *)
(***************************************************************************)
Usernames == {"", "alice", "Alice", "bob"}
Ages == {NaN, Num(12), Num(13)}
Passwords == {"pw1", "pw2"}
RegisterPasswords == {"pw1"}
Symbols == {"AAPL", "XYZ"}
WalkSymbols == {"XYZ"}
\* Math.random() * 0.1 - 0.05 lies in [-0.05, 0.05)
Variations == {<<-1, 20>>, <<0, 1>>, <<1, 25>>}
\* not a number, -1 coin, 0, a third of a cent, 1000 coins
FixedAmounts == {NaN, Num(-100), Num(0), <<0, 1, 3>>, Num(100000)}

(***************************************************************************)
(* Stock catalog and base prices.                                          *)
(***************************************************************************)
getStocks == {"AAPL", "AMZN", "TSLA", "GOOG", "NFLX", "NVDA", "MSFT", "META"}

BasePrice(symbol) ==
  CASE symbol = "AAPL" -> 15000
    [] symbol = "AMZN" -> 320000
    [] symbol = "TSLA" -> 70000
    [] symbol = "GOOG" -> 280000
    [] symbol = "NFLX" -> 50000
    [] symbol = "NVDA" -> 45000
    [] symbol = "MSFT" -> 35000
    [] symbol = "META" -> 30000
    [] OTHER -> 10000

InitialCoins == 10000000

MinAge == 13

PriceFloor == 100

\* !prices[symbol]: the entry is absent (undefined) or 0
Falsy(prices, symbol) == symbol \notin DOMAIN prices \/ prices[symbol] = 0

SetPrice(prices, symbol, p) ==
  [s \in DOMAIN prices \cup {symbol} |-> IF s = symbol THEN p ELSE prices[s]]

\* getStockPrice: the price table after the call, and the price returned
getStockPriceTable(prices, symbol) ==
  IF Falsy(prices, symbol) THEN SetPrice(prices, symbol, BasePrice(symbol))
  ELSE prices

getStockPrice(prices, symbol) == getStockPriceTable(prices, symbol)[symbol]

\* price * (1 + variation), before the clamp and the rounding
VariedPrice(price, variation) ==
  Mul(Num(price), <<variation[2] + variation[1], variation[2]>>)

RoundOnly(newPrice) == ToFixed2(0, newPrice)

\* if (newPrice < 1) newPrice = 1; parseFloat(newPrice.toFixed(2))
ClampRound(newPrice) ==
  IF LtInt(newPrice, PriceFloor) THEN PriceFloor ELSE ToFixed2(0, newPrice)

\* the price updateStockPrice starts from
PriceBefore(prices, symbol) ==
  IF Falsy(prices, symbol) THEN getStockPrice(prices, symbol) ELSE prices[symbol]

\* updateStockPrice: the price returned, and the price table after the call.
\* prices is the table read at line 140; the seed getStockPrice saves is in
\* the table it returns only through the assignment of line 149.
updateStockPrice(prices, symbol, variation) ==
  ClampRound(VariedPrice(PriceBefore(prices, symbol), variation))

updateStockPriceTable(prices, symbol, variation) ==
  SetPrice(prices, symbol, updateStockPrice(prices, symbol, variation))

(***************************************************************************)
(* Session accessor.                                                       *)
(***************************************************************************)
\* users.findIndex((u) => u.username === name) + 1; 0 when there is none
FindIndex(us, name) ==
  IF \E i \in DOMAIN us : us[i].username = name
  THEN CHOOSE i \in DOMAIN us :
         /\ us[i].username = name
         /\ \A j \in 1 .. i - 1 : us[j].username # name
  ELSE 0

\* users.find((u) => u.username.toLowerCase() === name.toLowerCase())
FindIndexLower(us, name) ==
  IF \E i \in DOMAIN us : ToLowerCase(us[i].username) = ToLowerCase(name)
  THEN CHOOSE i \in DOMAIN us :
         /\ ToLowerCase(us[i].username) = ToLowerCase(name)
         /\ \A j \in 1 .. i - 1 :
              ToLowerCase(us[j].username) # ToLowerCase(name)
  ELSE 0

\* getCurrentUserObject: the position of the current user's record, 0 for null
getCurrentUserObject(us, cur) ==
  IF cur = Null \/ cur = "" THEN 0 ELSE FindIndex(us, cur)

\* updateUser: the users list it leaves in storage
updateUser(us, updatedUser) ==
  LET idx == FindIndex(us, updatedUser.username)
  IN  IF idx >= 1 THEN [us EXCEPT ![idx] = updatedUser] ELSE us

(***************************************************************************)
(* Credential store.                                                       *)
(***************************************************************************)
\* the existing-username check of registerUser (case insensitive)
UsernameTakenExact(us, username) == FindIndex(us, username) # 0

UsernameTaken(us, username) == FindIndexLower(us, username) # 0

\* registerUser up to the await of hashPassword: the storage it leaves, and
\* either the failure it returns or the array it read, which it resumes with
Rejected(us, cur, message) ==
  [await |-> FALSE, users |-> us, currentUser |-> cur,
   ret |-> [success |-> FALSE, message |-> message]]

registerUser(us, cur, username, age) ==
  IF username = "" THEN Rejected(us, cur, "Username is required.")
  ELSE IF IsNaN(age) \/ LtInt(age, MinAge)
       THEN Rejected(us, cur,
                     "You must be at least 13 years old to register.")
  ELSE IF UsernameTaken(us, username)
       THEN Rejected(us, cur, "Username already exists.")
  ELSE [await |-> TRUE, users |-> us, currentUser |-> cur, snapshot |-> us]

newUser(username, age, password) ==
  [username |-> username, age |-> age,
   passwordHash |-> hashPassword(password),
   coins |-> InitialCoins, portfolio |-> <<>>]

registerResumeRereads(snapshot, stored, username, age, password) ==
  [users |-> Append(stored, newUser(username, age, password)),
   currentUser |-> username, ret |-> [success |-> TRUE]]

\* registerUser from the await on: snapshot is the array read at line 36,
\* stored the list in storage when the call resumes; the list it saves and
\* the session marker it sets
registerResume(snapshot, stored, username, age, password) ==
  [users |-> Append(snapshot, newUser(username, age, password)),
   currentUser |-> username, ret |-> [success |-> TRUE]]

\* loginUser up to the await: the storage it leaves, and either the failure
\* it returns or the record found, which it resumes with
loginUser(us, cur, username) ==
  LET idx == FindIndexLower(us, username)
  IN  IF idx = 0 THEN Rejected(us, cur, "User not found.")
      ELSE [await |-> TRUE, users |-> us, currentUser |-> cur,
            user |-> [username |-> us[idx].username,
                      passwordHash |-> us[idx].passwordHash]]

loginResumeMarksFirst(user, password, cur) ==
  IF hashPassword(password) # user.passwordHash
  THEN [currentUser |-> user.username,
        ret |-> [success |-> FALSE, message |-> "Incorrect password."]]
  ELSE [currentUser |-> user.username, ret |-> [success |-> TRUE]]

\* loginUser from the await on, for the record found before it (of which it
\* reads the username and the passwordHash): the session marker it leaves
\* and the value it returns
loginResume(user, password, cur) ==
  IF hashPassword(password) # user.passwordHash
  THEN [currentUser |-> cur,
        ret |-> [success |-> FALSE, message |-> "Incorrect password."]]
  ELSE [currentUser |-> user.username, ret |-> [success |-> TRUE]]

\* logout: localStorage.removeItem('currentUser')
logout == Null

Remove(seq, k) == [i \in 1 .. Len(seq) - 1 |-> IF i < k THEN seq[i] ELSE seq[i + 1]]

(***************************************************************************)
(* Portfolio ledger.  Each operation is a function of the storage it reads *)
(* and gives the storage it leaves and the value it returns.               *)
(***************************************************************************)
Failure(us, prices, message) ==
  [users |-> us, stockPrices |-> prices,
   ret |-> [success |-> FALSE, message |-> message]]

\* the holding investCoins makes
NewInvestmentTimes(symbol, amount, price) ==
  [symbol |-> symbol, quantity |-> Mul(amount, <<price, 1>>),
   priceAtPurchase |-> price, investedAmount |-> amount]

NewInvestment(symbol, amount, price) ==
  [symbol |-> symbol, quantity |-> Mul(amount, <<1, price>>),
   priceAtPurchase |-> price, investedAmount |-> amount]

investCoins(us, cur, prices, symbol, amount) ==
  LET idx == getCurrentUserObject(us, cur)
  IN  IF idx = 0 THEN Failure(us, prices, "Not logged in.")
      ELSE IF IsNaN(amount) \/ LeInt(amount, 0)
           THEN Failure(us, prices, "Please enter a valid amount.")
      ELSE IF GtInt(amount, us[idx].coins)
           THEN Failure(us, prices, "You do not have enough coins.")
      ELSE
        LET user == us[idx]
            price == getStockPrice(prices, symbol)
            investment == NewInvestment(symbol, amount, price)
            quantity == investment.quantity
            user2 == [user EXCEPT
                        !.coins = ToFixed2(user.coins, Neg(amount)),
                        !.portfolio = Append(user.portfolio, investment)]
        IN  [users |-> updateUser(us, user2),
             stockPrices |-> getStockPriceTable(prices, symbol),
             ret |-> [success |-> TRUE, price |-> price,
                      quantity |-> quantity]]

\* the body of the map callback of updatePortfolio for one holding, given
\* the price updateStockPrice returned: the new balance and the holding
ProfitLossOnQuantity(inv, newPrice) ==
  LET oldPrice == inv.priceAtPurchase
      pctChange == Ratio(newPrice - oldPrice, oldPrice)
  IN  Mul(inv.quantity, pctChange)

ProfitLoss(inv, newPrice) ==
  LET oldPrice == inv.priceAtPurchase
      pctChange == Ratio(newPrice - oldPrice, oldPrice)
  IN  Mul(inv.investedAmount, pctChange)

Rebase(inv, newPrice) ==
  [inv EXCEPT !.priceAtPurchase = newPrice,
              !.investedAmount = Mul(inv.quantity, <<newPrice, 1>>)]

RECURSIVE RevalueFrom(_, _, _, _, _)
RevalueFrom(i, user, prices, vs, rets) ==
  IF i > Len(user.portfolio)
  THEN [user |-> user, stockPrices |-> prices, newPrices |-> rets]
  ELSE
    LET inv == user.portfolio[i]
        newPrice == updateStockPrice(prices, inv.symbol, vs[i])
        user2 == [user EXCEPT
                    !.coins = ToFixed2(user.coins, ProfitLoss(inv, newPrice)),
                    !.portfolio[i] = Rebase(inv, newPrice)]
    IN  RevalueFrom(i + 1, user2,
                    updateStockPriceTable(prices, inv.symbol, vs[i]),
                    vs, Append(rets, newPrice))

\* vs[i] is the variation Math.random() gives for the i-th holding
updatePortfolio(us, cur, prices, vs) ==
  LET idx == getCurrentUserObject(us, cur)
  IN  IF idx = 0
      THEN [users |-> us, stockPrices |-> prices, newPrices |-> <<>>,
            ret |-> [success |-> FALSE]]
      ELSE
        LET r == RevalueFrom(1, us[idx], prices, vs, <<>>)
        IN  [users |-> updateUser(us, r.user),
             stockPrices |-> r.stockPrices, newPrices |-> r.newPrices,
             ret |-> [success |-> TRUE]]

\* the proceeds of sellInvestment
SaleValueAtPurchase(inv, currentPrice) ==
  Mul(inv.quantity, <<inv.priceAtPurchase, 1>>)

SaleValue(inv, currentPrice) == Mul(inv.quantity, <<currentPrice, 1>>)

\* index is the 0-based index of the call
InRange(index, portfolio) == ~(index < 0 \/ index >= Len(portfolio))

sellInvestment(us, cur, prices, index, variation) ==
  LET idx == getCurrentUserObject(us, cur)
  IN  IF idx = 0 \/ ~InRange(index, us[idx].portfolio)
      THEN [users |-> us, stockPrices |-> prices, currentPrice |-> 0,
            ret |-> [success |-> FALSE]]
      ELSE
        LET user == us[idx]
            inv == user.portfolio[index + 1]
            currentPrice == updateStockPrice(prices, inv.symbol, variation)
            value == SaleValue(inv, currentPrice)
            user2 == [user EXCEPT
                        !.coins = ToFixed2(user.coins, value),
                        !.portfolio = Remove(user.portfolio, index + 1)]
        IN  [users |-> updateUser(us, user2),
             stockPrices |->
               updateStockPriceTable(prices, inv.symbol, variation),
             currentPrice |-> currentPrice,
             ret |-> [success |-> TRUE, value |-> value]]

(***************************************************************************)
(* The state machine.  inflight holds the calls suspended on the await of  *)
(* hashPassword, each with the locals it resumes with.  A call that        *)
(* returns a failure writes nothing, so it is a step that changes no       *)
(* variable; steps counts the steps that do, which MaxSteps caps.          *)
(***************************************************************************)
Init ==
  /\ users = <<>>
  /\ stockPrices = <<>>
  /\ currentUser = Null
  /\ inflight = <<>>
  /\ steps = 0

\* a step counts when it writes the storage or suspends or resumes a call
Tick ==
  /\ steps' = IF <<users, stockPrices, currentUser, inflight>>' =
                 <<users, stockPrices, currentUser, inflight>>
              THEN steps ELSE steps + 1
  /\ steps' <= MaxSteps

RegisterCall(username, age, password) ==
  LET r == registerUser(users, currentUser, username, age)
  IN  /\ users' = r.users
      /\ currentUser' = r.currentUser
      /\ inflight' = IF r.await
                     THEN Append(inflight,
                            [op |-> "registerUser", username |-> username,
                             age |-> age, password |-> password,
                             users |-> r.snapshot])
                     ELSE inflight
      /\ UNCHANGED stockPrices
      /\ Tick

RegisterResume(k) ==
  LET c == inflight[k]
      r == registerResume(c.users, users, c.username, c.age, c.password)
  IN  /\ c.op = "registerUser"
      /\ users' = r.users
      /\ currentUser' = r.currentUser
      /\ inflight' = Remove(inflight, k)
      /\ UNCHANGED stockPrices
      /\ Tick

LoginCall(username, password) ==
  LET r == loginUser(users, currentUser, username)
  IN  /\ users' = r.users
      /\ currentUser' = r.currentUser
      /\ inflight' = IF r.await
                     THEN Append(inflight,
                            [op |-> "loginUser", password |-> password,
                             user |-> r.user])
                     ELSE inflight
      /\ UNCHANGED stockPrices
      /\ Tick

LoginResume(k) ==
  LET c == inflight[k]
  IN  /\ c.op = "loginUser"
      /\ inflight' = Remove(inflight, k)
      /\ currentUser' = loginResume(c.user, c.password, currentUser).currentUser
      /\ UNCHANGED <<users, stockPrices>>
      /\ Tick

Logout ==
  /\ currentUser' = logout
  /\ UNCHANGED <<users, stockPrices, inflight>>
  /\ Tick

\* the portfolio of the current user (empty without one)
CurrentPortfolio(us, cur) ==
  LET idx == getCurrentUserObject(us, cur)
  IN  IF idx = 0 THEN <<>> ELSE us[idx].portfolio

\* the amounts tried: the fixed ones, the whole balance and one cent more
AmountsOf(us, cur) ==
  LET idx == getCurrentUserObject(us, cur)
  IN  FixedAmounts \cup
        (IF idx = 0 THEN {}
         ELSE {Num(us[idx].coins), Num(us[idx].coins + 1)})

\* the indexes tried: -1, those of the holdings, and the one past the last
IndexesOf(us, cur) == -1 .. Len(CurrentPortfolio(us, cur))

InvestCoins(symbol, amount) ==
  LET r == investCoins(users, currentUser, stockPrices, symbol, amount)
  IN  /\ users' = r.users
      /\ stockPrices' = r.stockPrices
      /\ UNCHANGED <<currentUser, inflight>>
      /\ Tick

UpdatePortfolio(vs) ==
  LET r == updatePortfolio(users, currentUser, stockPrices, vs)
  IN  /\ steps < MaxSteps \/ vs = <<>>
      /\ users' = r.users
      /\ stockPrices' = r.stockPrices
      /\ UNCHANGED <<currentUser, inflight>>
      /\ Tick

SellInvestment(index, variation) ==
  LET r == sellInvestment(users, currentUser, stockPrices, index,
                          variation)
  IN  /\ steps < MaxSteps \/ ~InRange(index, CurrentPortfolio(users, currentUser))
      /\ users' = r.users
      /\ stockPrices' = r.stockPrices
      /\ UNCHANGED <<currentUser, inflight>>
      /\ Tick

Next ==
  \/ \E u \in Usernames, a \in Ages, p \in RegisterPasswords :
       RegisterCall(u, a, p)
  \/ \E k \in DOMAIN inflight : RegisterResume(k)
  \/ \E u \in Usernames, p \in Passwords : LoginCall(u, p)
  \/ \E k \in DOMAIN inflight : LoginResume(k)
  \/ Logout
  \/ \E s \in Symbols, a \in AmountsOf(users, currentUser) : InvestCoins(s, a)
  \/ \E vs \in [DOMAIN CurrentPortfolio(users, currentUser) -> Variations] :
       UpdatePortfolio(vs)
  \/ \E i \in IndexesOf(users, currentUser), v \in Variations :
       SellInvestment(i, v)

Spec == Init /\ [][Next]_vars

(***************************************************************************)
(* The price oracle alone: getStockPrice and updateStockPrice called on    *)
(* their own, as the pages do to show and to refresh a price.  The walk    *)
(* of one symbol is followed down to the floor of 1 coin.                  *)
(***************************************************************************)
GetStockPrice(symbol) ==
  /\ stockPrices' = getStockPriceTable(stockPrices, symbol)
  /\ UNCHANGED <<users, currentUser, inflight, steps>>

UpdateStockPrice(symbol, variation) ==
  /\ updateStockPrice(stockPrices, symbol, variation) <= MaxWalkPrice
  /\ stockPrices' = updateStockPriceTable(stockPrices, symbol, variation)
  /\ UNCHANGED <<users, currentUser, inflight, steps>>

NextOracle ==
  \/ \E s \in Symbols : GetStockPrice(s)
  \/ \E s \in WalkSymbols, v \in Variations : UpdateStockPrice(s, v)

SpecOracle == Init /\ [][NextOracle]_vars

(***************************************************************************)
(* Properties.                                                             *)
(***************************************************************************)
\* the position of the current user's record, 0 when none resolves
Cur == getCurrentUserObject(users, currentUser)

Registers == {k \in DOMAIN inflight : inflight[k].op = "registerUser"}

Logins == {k \in DOMAIN inflight : inflight[k].op = "loginUser"}

\* C1: the balance of every stored user is >= 0 in every reachable state,
\* so after every operation that reports success.
C1_BalanceNonNegative == \A i \in DOMAIN users : users[i].coins >= 0

\* C3: the symbol of every holding of every stored user is one of the 8
\* symbols of the stock catalog.
C3_SymbolsInCatalog ==
  \A i \in DOMAIN users :
    \A h \in DOMAIN users[i].portfolio :
      users[i].portfolio[h].symbol \in getStocks

\* C9: no step removes a stored record, and the write of registerUser after
\* its await keeps every record as it is stored when the call resumes.
C9_RegisterKeepsStoredRecords ==
  [][/\ \A i \in DOMAIN users :
          \E j \in DOMAIN users' : users'[j].username = users[i].username
     /\ \A k \in Registers :
          RegisterResume(k) =>
            \A i \in DOMAIN users :
              \E j \in DOMAIN users' : users'[j] = users[i]]_vars

\* C10: the stored users list holds at most one record per username
\* compared case-insensitively.
C10_UniqueUsernames ==
  \A i, j \in DOMAIN users :
    ToLowerCase(users[i].username) = ToLowerCase(users[j].username) => i = j

\* a register call is suspended on the hash while its username, in another
\* letter case, has been stored by a register call that was suspended with it
C10_Witness ==
  \E k \in Registers :
    /\ FindIndexLower(users, inflight[k].username) # 0
    /\ FindIndex(users, inflight[k].username) = 0
    /\ inflight[k].users = <<>>

\* post is c + x to 2 decimals: the whole number of cents nearest to c + x
IsRounded(post, c, x) ==
  \/ post = c + x[1] /\ 2 * x[2] <= x[3]
  \/ post = c + x[1] + 1 /\ 2 * x[2] >= x[3]

VariationsOf(portfolio) == [DOMAIN portfolio -> Variations]

\* C2: every call that reports failure leaves users, stockPrices and
\* currentUser as they were, and each listed condition is reported as a
\* failure: register with an empty username, a bad age or a taken username,
\* login with an unknown username or a wrong password, buy with a bad or
\* too large amount, sellOne with an index out of range, and buy, revalueAll
\* and sellOne with no current user.
C2_FailureIsNoOp ==
  /\ \A u \in Usernames, a \in Ages :
       LET r == registerUser(users, currentUser, u, a)
       IN  /\ (u = "" \/ IsNaN(a) \/ LtInt(a, MinAge)
                 \/ \E i \in DOMAIN users :
                      ToLowerCase(users[i].username) = ToLowerCase(u))
                => ~r.await
           /\ ~r.await => /\ ~r.ret.success
                          /\ r.users = users
                          /\ r.currentUser = currentUser
  /\ \A u \in Usernames :
       LET r == loginUser(users, currentUser, u)
       IN  /\ (\A i \in DOMAIN users :
                 ToLowerCase(users[i].username) # ToLowerCase(u))
                => ~r.await
           /\ ~r.await => /\ ~r.ret.success
                          /\ r.users = users
                          /\ r.currentUser = currentUser
  /\ \A k \in Logins :
       LET c == inflight[k]
           r == loginResume(c.user, c.password, currentUser)
       IN  /\ hashPassword(c.password) # c.user.passwordHash
                => ~r.ret.success
           /\ ~r.ret.success => r.currentUser = currentUser
  /\ \A s \in Symbols, a \in AmountsOf(users, currentUser) :
       LET r == investCoins(users, currentUser, stockPrices, s, a)
       IN  /\ (Cur = 0 \/ IsNaN(a) \/ LeInt(a, 0)
                 \/ GtInt(a, users[Cur].coins))
                => ~r.ret.success
           /\ ~r.ret.success => /\ r.users = users
                                /\ r.stockPrices = stockPrices
  /\ \A i \in IndexesOf(users, currentUser), v \in Variations :
       LET r == sellInvestment(users, currentUser, stockPrices, i, v)
       IN  /\ (Cur = 0 \/ i < 0 \/ i >= Len(users[Cur].portfolio))
                => ~r.ret.success
           /\ ~r.ret.success => /\ r.users = users
                                /\ r.stockPrices = stockPrices
  /\ \A vs \in VariationsOf(CurrentPortfolio(users, currentUser)) :
       LET r == updatePortfolio(users, currentUser, stockPrices, vs)
       IN  /\ Cur = 0 => ~r.ret.success
           /\ ~r.ret.success => /\ r.users = users
                                /\ r.stockPrices = stockPrices

\* a login with a wrong password is suspended for a user who is not the
\* current one, a stored user has a holding, and a symbol is not priced yet
C2_Witness ==
  /\ \E i \in DOMAIN users : users[i].portfolio # <<>>
  /\ \E s \in Symbols : s \notin DOMAIN stockPrices
  /\ \E k \in Logins :
       /\ hashPassword(inflight[k].password) # inflight[k].user.passwordHash
       /\ inflight[k].user.username # currentUser

\* C4: a buy by a logged-in user with 0 < amount <= balance succeeds, the
\* balance becomes the balance minus amount to 2 decimals, and one holding
\* is appended with investedAmount = amount, referencePrice = the price
\* getPrice returned and quantity = amount / price; the earlier holdings
\* are unchanged and keep their order.
C4_Buy ==
  \A s \in Symbols, a \in AmountsOf(users, currentUser) :
    (Cur # 0 /\ ~IsNaN(a) /\ GtInt(a, 0) /\ LeInt(a, users[Cur].coins)) =>
      LET r == investCoins(users, currentUser, stockPrices, s, a)
          old == users[Cur].portfolio
          new == r.users[Cur].portfolio
          h == new[Len(new)]
          price == IF s \in DOMAIN stockPrices THEN stockPrices[s]
                   ELSE BasePrice(s)
      IN  /\ r.ret.success
          /\ IsRounded(r.users[Cur].coins, users[Cur].coins, Neg(a))
          /\ Len(new) = Len(old) + 1
          /\ \A j \in DOMAIN old : new[j] = old[j]
          /\ h.symbol = s
          /\ h.investedAmount = a
          /\ r.ret.price = price
          /\ h.priceAtPurchase = price
          /\ Mul(h.quantity, <<price, 1>>) = a
          /\ r.ret.quantity = h.quantity

\* a user holds 1000 coins of a stock and then a third of a cent of one:
\* the second buy left the balance where the first put it
C4_Witness ==
  \E i \in DOMAIN users :
    /\ Len(users[i].portfolio) = 2
    /\ users[i].portfolio[1].investedAmount = Num(100000)
    /\ users[i].portfolio[2].investedAmount = <<0, 1, 3>>
    /\ users[i].coins = InitialCoins - 100000

\* C5: a sellOne by a logged-in user with 0 <= index < number of holdings
\* succeeds, refreshes the price of the symbol by one updatePrice call, adds
\* quantity * refreshed price to the balance to 2 decimals, and removes the
\* holding at index: those before it stay, those after it move down by one.
C5_Sell ==
  \A i \in IndexesOf(users, currentUser), v \in Variations :
    (Cur # 0 /\ 0 <= i /\ i < Len(users[Cur].portfolio)) =>
      LET r == sellInvestment(users, currentUser, stockPrices, i, v)
          old == users[Cur].portfolio
          new == r.users[Cur].portfolio
          inv == old[i + 1]
          p == updateStockPrice(stockPrices, inv.symbol, v)
      IN  /\ r.ret.success
          /\ r.currentPrice = p
          /\ r.stockPrices = updateStockPriceTable(stockPrices, inv.symbol, v)
          /\ r.ret.value = Mul(inv.quantity, <<p, 1>>)
          /\ IsRounded(r.users[Cur].coins, users[Cur].coins,
                       Mul(inv.quantity, <<p, 1>>))
          /\ Len(new) = Len(old) - 1
          /\ \A j \in 1 .. i : new[j] = old[j]
          /\ \A j \in i + 1 .. Len(new) : new[j] = old[j + 1]
          /\ Len(old) = 1 => new = <<>>

\* 1000 coins of AAPL and 1000 coins of XYZ were bought and the AAPL
\* holding, the first, was sold at 142.50: the XYZ holding moved down
C5_Witness ==
  \E i \in DOMAIN users :
    /\ Len(users[i].portfolio) = 1
    /\ users[i].portfolio[1].symbol = "XYZ"
    /\ users[i].portfolio[1].investedAmount = Num(100000)
    /\ users[i].coins = InitialCoins - 200000 + 95000
    /\ stockPrices = [s \in {"AAPL", "XYZ"} |->
                        IF s = "AAPL" THEN 14250 ELSE 10000]

\* C8: a register call whose username matches a stored one without regard
\* to case reports failure, adds no record and leaves the existing records
\* and the session marker unchanged.
C8_DuplicateRegisterFails ==
  \A u \in Usernames, a \in Ages :
    (\E i \in DOMAIN users :
       ToLowerCase(users[i].username) = ToLowerCase(u)) =>
      LET r == registerUser(users, currentUser, u, a)
      IN  /\ ~r.await
          /\ ~r.ret.success
          /\ r.users = users
          /\ r.currentUser = currentUser

\* alice is stored and has traded, and is not the current user: a register
\* call for Alice is a duplicate that differs in case
C8_Witness ==
  \E i \in DOMAIN users :
    /\ users[i].username = "alice"
    /\ users[i].portfolio # <<>>
    /\ currentUser # "alice"

\* the profit or loss v * (p' - p) / p of a holding revalued at price p'
Delta(h, p) == Mul(h.investedAmount, Ratio(p - h.priceAtPurchase,
                                           h.priceAtPurchase))

\* the balance after the first k holdings, each addition rounded to 2
\* decimals, and the same sum without any rounding
RECURSIVE RoundedBalance(_, _, _, _)
RoundedBalance(c, old, ps, k) ==
  IF k = 0 THEN c
  ELSE ToFixed2(RoundedBalance(c, old, ps, k - 1), Delta(old[k], ps[k]))

RECURSIVE ExactBalance(_, _, _, _)
ExactBalance(c, old, ps, k) ==
  IF k = 0 THEN Num(c)
  ELSE Add(ExactBalance(c, old, ps, k - 1), Delta(old[k], ps[k]))

\* the price the k-th updatePrice call of the pass starts from: the one the
\* last earlier holding of the same symbol was given, else the stored one
\* (seeded from the base table when unset)
PassPrice(prices, old, ps, k) ==
  LET same == {j \in 1 .. k - 1 : old[j].symbol = old[k].symbol}
  IN  IF same = {} THEN PriceBefore(prices, old[k].symbol)
      ELSE ps[CHOOSE j \in same : \A m \in same : m <= j]

\* what revalueAll does to the holdings, for the prices ps its updatePrice
\* calls return: the holdings are taken in order, each rebased to its own
\* price, with quantity, symbol, number and order kept
Revalued(r, vs) ==
  LET old == users[Cur].portfolio
      new == r.users[Cur].portfolio
      ps == r.newPrices
  IN  /\ r.ret.success
      /\ Len(new) = Len(old)
      /\ Len(ps) = Len(old)
      /\ \A k \in DOMAIN old :
           /\ ps[k] = ClampRound(VariedPrice(
                        PassPrice(stockPrices, old, ps, k), vs[k]))
           /\ new[k].symbol = old[k].symbol
           /\ new[k].quantity = old[k].quantity
           /\ new[k].priceAtPurchase = ps[k]
           /\ new[k].investedAmount = Mul(old[k].quantity, <<ps[k], 1>>)

C7_PriceBounds ==
  /\ \A s \in DOMAIN stockPrices : stockPrices[s] >= PriceFloor
  /\ \A s \in Symbols \cup getStocks, v \in Variations :
       LET before == IF s \in DOMAIN stockPrices THEN stockPrices[s]
                     ELSE IF s \in getStocks THEN BasePrice(s)
                     ELSE 10000
           varied == VariedPrice(before, v)
           p == updateStockPrice(stockPrices, s, v)
       IN  /\ PriceBefore(stockPrices, s) = before
           /\ Le(Mul(Num(before), <<19, 20>>), varied)
           /\ Le(varied, Mul(Num(before), <<21, 20>>))
           /\ p >= PriceFloor
           /\ LtInt(varied, PriceFloor) \/ IsRounded(p, 0, varied)
           /\ updateStockPriceTable(stockPrices, s, v)[s] = p

\* the price of XYZ has walked from 100 coins down to the floor of 1 coin
C7_Witness ==
  /\ "XYZ" \in DOMAIN stockPrices
  /\ stockPrices["XYZ"] = PriceFloor

====
